---------------------------- MODULE Spec2Model ----------------------------
(***************************************************************************)
(* Model of the data-mapping layer of the ethercat master client:          *)
(*   - MasterConfigurator (src/src/config.rs): require / resolve /         *)
(*     request over the per-slave ConfigEntry registry, and the static     *)
(*     three-phase solve over a MappingInventory;                          *)
(*   - Field / DType (src/src/field.rs): the typed codec over a byte       *)
(*     buffer;                                                             *)
(*   - main of src/examples/cyclic-data.rs: the cyclic exchange.           *)
(* The specifications share the variables: Spec (the registry),            *)
(* SpecResolved (the registry with resolve carried past its placeholder),  *)
(* SpecSolve (one run of solve), SpecSolveFair (the same under weak        *)
(* fairness), SpecTwice (the run repeated once on the same arguments),     *)
(* SpecCodec (get/set on a buffer) and SpecCycle (the cyclic exchange).    *)
(***************************************************************************)
EXTENDS Integers, Sequences, FiniteSets, TLC

VARIABLES
    entries,        \* MasterConfigurator.entries: slave -> ConfigEntry
    ret,            \* what the last call on the configurator gave its caller
    inventory,      \* solve's argument `mapping`, as passed in
    configurable,   \* solve's argument `configurable`, collected into a HashSet
    required,       \* solve's argument `entries`: the slice of required Sdo
    mapping,        \* solve's local `mapping` (mutated in place)
    used,           \* solve's local `used`
    reached,        \* solve's local `reached`
    pc,             \* where the current run of solve stands
    result,         \* what the current run of solve returned
    run,            \* 1 for the first run on this input, 2 for the repeated one
    first,          \* what the first run returned, kept for the repeated run
    data,           \* the byte buffer handed to Field::get / Field::set
    cret,           \* what the last codec call gave its caller
    calls,          \* the driver calls the last configurator call issued
    mpc,            \* where main of examples/cyclic-data.rs stands
    issued          \* the master and domain calls main has issued, in order

vars == <<entries, ret, inventory, configurable, required, mapping, used,
          reached, pc, result, run, first, data, cret, calls, mpc, issued>>

regVars   == <<entries, ret, calls>>
solveVars == <<inventory, configurable, required, mapping, used, reached,
               pc, result, run, first>>
codecVars == <<data, cret>>
cycleVars == <<mpc, issued>>

-----------------------------------------------------------------------------
(* Bounds and the finite universes the inputs are drawn from.              *)

MaxReq == 2          \* most requirements (inputs and outputs) a slave is given
MaxPdoLen == 2       \* most positions a carrier (PDO) has
MaxSyncCap == 1      \* largest Vec capacity of a sync manager's list
MaxBuf == 8          \* longest buffer handed to the codec
MaxTotal == 2        \* requirements of all slaves together when resolve runs
MaxCycles == 4       \* cycles of the exchange loop main is followed through

Slaves == {1, 2}
\* Sdo addresses required by the application; "C" is asked for but is not in
\* the dictionnary.
Sdos == {"A", "B"}
AnySdo == Sdos \cup {"C"}
Directions == {"Output", "Input", "Invalid"}

\* All orders in which an unordered collection (HashMap / HashSet) may be
\* iterated: std's RandomState gives every instance its own order.
Orders(S) ==
    {f \in [1..Cardinality(S) -> S] : \A i, j \in DOMAIN f : f[i] = f[j] => i = j}

BSeq(S, n) == UNION {[1..k -> S] : k \in 0..n}

Min(a, b) == IF a <= b THEN a ELSE b

RECURSIVE Sum(_, _)
Sum(f, S) == IF S = {} THEN 0
             ELSE LET x == CHOOSE y \in S : TRUE IN f[x] + Sum(f, S \ {x})

-----------------------------------------------------------------------------
(* Field codec types (src/src/field.rs)                                    *)

\* The types that implement DType.
DTypes == {"F32", "F64", "U32", "U16", "U8", "I32", "I16", "I8"}

\* std::mem::size_of::<T>()
SizeOf(T) ==
    CASE T \in {"U8", "I8"} -> 1
      [] T \in {"U16", "I16"} -> 2
      [] T \in {"U32", "I32", "F32"} -> 4
      [] T = "F64" -> 8

\* Field::new(byte, bit, bitlen)
FieldNew(byte, bit, bitlen) == [byte |-> byte, bit |-> bit, bitlen |-> bitlen]

-----------------------------------------------------------------------------
(* MasterConfigurator: the registry (src/src/config.rs)                    *)

\* MasterConfigurator.dictionnary: Sdo -> (bit length, TypeId)
dictionnary ==
    [s \in Sdos |-> IF s = "A" THEN <<16, "U16">> ELSE <<8, "U8">>]

\* MasterConfigurator.inventory, the MappingInventory given to new(): two
\* PDOs of two positions each and two sync managers of capacity 1.
selfInventory ==
    [pdos  |-> [p \in {1, 2} |-> <<"A", "B">>],
     syncs |-> [s \in {1, 2} |-> [items |-> <<>>, capacity |-> 1]]]

\* ConfigEntry::default()
ConfigEntryDefault == [inputs |-> <<>>, outputs |-> <<>>, offsets |-> <<>>]

\* self.entries.entry(slave).or_insert_with(|| ConfigEntry::default())
OrInsert(es, slave) ==
    [s \in DOMAIN es \cup {slave} |->
        IF s \in DOMAIN es THEN es[s] ELSE ConfigEntryDefault]

\* Vec::push
Push(list, sdo) == Append(list, sdo)

\* Faulty variant: the Invalid direction is defaulted to Output.
RequireInvalidDefaulted(es, slave, sdo) ==
    IF Len(es[slave].outputs) < MaxReq
    THEN [es EXCEPT ![slave].outputs = Push(@, sdo)]
    ELSE es

\* The Invalid arm of require: unimplemented!() unwinds, and the entry
\* or_insert_with created stays in the map.
RequireInvalid(es, slave, sdo) == es

\* require(slave, sdo, direction)
Require(slave, sdo, direction) ==
    LET es == OrInsert(entries, slave) IN
    /\ direction # "Invalid" =>
          Len(es[slave].inputs) + Len(es[slave].outputs) < MaxReq
    /\ CASE direction = "Output" ->
              /\ entries' = [es EXCEPT ![slave].outputs = Push(@, sdo)]
              /\ ret' = [op |-> "require", slave |-> slave, sdo |-> sdo,
                         direction |-> direction, res |-> "ok"]
         [] direction = "Input" ->
              /\ entries' = [es EXCEPT ![slave].inputs = Push(@, sdo)]
              /\ ret' = [op |-> "require", slave |-> slave, sdo |-> sdo,
                         direction |-> direction, res |-> "ok"]
         [] direction = "Invalid" ->
              /\ entries' = RequireInvalid(es, slave, sdo)
              /\ ret' = [op |-> "require", slave |-> slave, sdo |-> sdo,
                         direction |-> direction, res |-> "panic"]
    /\ calls' = <<>>
    /\ UNCHANGED <<solveVars, codecVars, cycleVars>>

\* resolve(fixed, configurable, syncs): the first slave the loop visits hits
\* `let mapping: MappingInventory = todo!()`, which panics before anything is
\* configured, registered or stored; with no slave the loop body never runs.
Resolve ==
    /\ entries' = entries
    /\ ret' = [op |-> "resolve",
               res |-> IF DOMAIN entries = {} THEN "ok" ELSE "panic"]
    /\ calls' = <<>>
    /\ UNCHANGED <<solveVars, codecVars, cycleVars>>

\* What the placeholder of line 66 stands for, the call left in the comment
\* of line 67: Self::solve(self.inventory.clone(), configurable,
\* &entries.outputs)?, a mapping or a MappingError.
SolveResults == {"Ok", "LackOfPdo", "LackOfSync"}

\* The (byte, bit) offset register_pdo_entry answers with: the place of the
\* entry in the process image of the domain, where each slave has three
\* bytes, the 16 bits of A and then the 8 bits of B.
DriverOffset(slave, sdo) ==
    <<3 * (slave - 1) + (IF sdo = "A" THEN 0 ELSE 2), 0>>

\* entries.inputs.iter().chain(&entries.outputs)
Chain(e) == e.inputs \o e.outputs

\* Faulty variant: the offsets are inserted in the entry of every slave.
RegisteredEverywhere(es, slave, k, f) ==
    [t \in DOMAIN es |->
        [es[t] EXCEPT !.offsets =
            [s \in DOMAIN es[slave].offsets
                     \cup {Chain(es[slave])[i] : i \in 1..k} |->
                f[s]]]]

\* The registration loop after k answers Ok(offset) of the driver:
\* entries.offsets.insert(sdo, (offset.byte, offset.bit as u8)) for the
\* first k items of the chain, f[sdo] being the offset answered for sdo.
Registered(es, slave, k, f) ==
    IF k = 0 THEN es
    ELSE LET done == {Chain(es[slave])[i] : i \in 1..k} IN
         [es EXCEPT ![slave].offsets =
             [s \in DOMAIN es[slave].offsets \cup done |->
                 IF s \in done THEN f[s] ELSE es[slave].offsets[s]]]

\* The items of a list, each once, in the order of their first occurrence.
RECURSIVE Dedup(_)
Dedup(sq) ==
    IF sq = <<>> THEN <<>>
    ELSE <<Head(sq)>>
            \o SelectSeq(Dedup(Tail(sq)), LAMBDA x : x # Head(sq))

\* The mapping a successful solve returns for the outputs of a slave on
\* self.inventory with every PDO configurable: each required item once,
\* filling PDO 1 and then PDO 2, and each PDO that received an item assigned
\* to the sync manager of the same rank.
SolvedMapping(outputs) ==
    LET items == Dedup(outputs)
        size(p) == Len(selfInventory.pdos[p])
        before(p) == Sum([q \in 1..(p - 1) |-> size(q)], 1..(p - 1))
        pdos == [p \in DOMAIN selfInventory.pdos |->
                    SubSeq(items, before(p) + 1,
                           Min(before(p) + size(p), Len(items)))]
    IN [pdos  |-> pdos,
        syncs |-> [y \in DOMAIN selfInventory.syncs |->
                      IF pdos[y] # <<>> THEN <<y>> ELSE <<>>]]

\* The driver calls of the loops over one PDO of a sync manager:
\* add_pdo_assignment, clear_pdo_mapping, and add_pdo_mapping for each
\* entry of the PDO with its position.
PdoCalls(m, sync, pdo) ==
    <<<<"add_pdo_assignment", sync, pdo>>, <<"clear_pdo_mapping", pdo>>>>
       \o [i \in 1..Len(m.pdos[pdo]) |->
              <<"add_pdo_mapping", pdo, i - 1, m.pdos[pdo][i]>>]

RECURSIVE PdosCalls(_, _, _)
PdosCalls(m, sync, pdos) ==
    IF pdos = <<>> THEN <<>>
    ELSE PdoCalls(m, sync, Head(pdos)) \o PdosCalls(m, sync, Tail(pdos))

\* The driver calls of `for (sync, pdos) in mapping.syncs`, the sync
\* managers taken in the order `ord` of the HashMap.
RECURSIVE ConfigCalls(_, _)
ConfigCalls(m, ord) ==
    IF ord = <<>> THEN <<>>
    ELSE <<<<"config_sync_manager", Head(ord)>>,
           <<"clear_pdo_assignments", Head(ord)>>>>
            \o PdosCalls(m, Head(ord), m.syncs[Head(ord)])
            \o ConfigCalls(m, Tail(ord))

\* The driver calls of the registration loop.
RegisterCalls(chain) ==
    [i \in 1..Len(chain) |-> <<"register_pdo_entry", chain[i]>>]

\* Every driver call of one iteration of resolve, in the order of the code.
SlaveCalls(slave, e, ord) ==
    LET m == SolvedMapping(e.outputs) IN
    <<<<"get_slave_info", slave>>, <<"configure_slave", slave>>>>
       \o ConfigCalls(m, ord)
       \o RegisterCalls(Chain(e))

\* resolve with the call of line 67 in the place of the placeholder of line
\* 66.  The loop visits a first slave in the order of the HashMap; an Err of
\* solve returns at once; each driver call may answer Err, which `?`
\* returns: j calls succeed, and the call after them, if any, is issued and
\* fails.  The offsets of the registrations that succeeded are inserted.
\* When every call succeeds the iteration ends at todo!("gerer les
\* inputs"), which panics, so no second slave is visited.
ResolveSolved ==
    IF DOMAIN entries = {}
    THEN /\ entries' = entries
         /\ ret' = [op |-> "resolve", res |-> "ok"]
         /\ calls' = <<>>
         /\ UNCHANGED <<solveVars, codecVars, cycleVars>>
    ELSE \E slave \in DOMAIN entries : \E r \in SolveResults :
         /\ IF r # "Ok"
            THEN /\ entries' = entries
                 /\ ret' = [op |-> "resolve", res |-> "Err", slave |-> slave]
                 /\ calls' = <<>>
            ELSE \E ord \in Orders(DOMAIN selfInventory.syncs) :
                 \E all \in {SlaveCalls(slave, entries[slave], ord)} :
                 \E j \in 0..Len(all) :
                 LET n == Len(Chain(entries[slave]))
                     k == IF j > Len(all) - n THEN j - (Len(all) - n) ELSE 0
                     f == [s \in Sdos |-> DriverOffset(slave, s)]
                 IN /\ calls' = SubSeq(all, 1, Min(j + 1, Len(all)))
                    /\ entries' = Registered(entries, slave, k, f)
                    /\ ret' = [op |-> "resolve", slave |-> slave,
                               res |-> IF j < Len(all) THEN "Err" ELSE "panic"]
         /\ UNCHANGED <<solveVars, codecVars, cycleVars>>

\* Faulty variant: a missing entry or offset is answered with a zero Field.
RequestResultDefaulted(T, slave, sdo) ==
    IF sdo \in DOMAIN dictionnary /\ T = dictionnary[sdo][2]
    THEN [res |-> "ok", field |-> FieldNew(0, 0, dictionnary[sdo][1])]
    ELSE [res |-> "panic"]

\* request::<T>(slave, sdo): the dictionnary index, the assert, the entries
\* index and the offsets index each panic on a miss.
RequestResult(T, slave, sdo) ==
    IF sdo \notin DOMAIN dictionnary THEN [res |-> "panic"]
    ELSE IF T # dictionnary[sdo][2] THEN [res |-> "panic"]
    ELSE IF slave \notin DOMAIN entries THEN [res |-> "panic"]
    ELSE IF sdo \notin DOMAIN entries[slave].offsets THEN [res |-> "panic"]
    ELSE LET off == entries[slave].offsets[sdo] IN
         [res |-> "ok", field |-> FieldNew(off[1], off[2], dictionnary[sdo][1])]

Request(T, slave, sdo) ==
    /\ ret' = [op |-> "request", slave |-> slave, sdo |-> sdo, T |-> T]
                 @@ RequestResult(T, slave, sdo)
    /\ calls' = <<>>
    /\ UNCHANGED <<entries, solveVars, codecVars, cycleVars>>

-----------------------------------------------------------------------------
(* MasterConfigurator::solve (src/src/config.rs)                           *)
(*                                                                         *)
(* A MappingInventory is [pdos, syncs]: pdos maps a PDO id to its Vec<Sdo>,*)
(* syncs maps a sync manager id to its Vec<u16>, kept here as              *)
(* [items, capacity] because solve reads Vec::capacity().                  *)

PdoIds == {1, 2}
SyncIds == {1, 2}
\* A PDO found in a sync manager's list of the inventory before solve runs.
StalePdo == 9

SyncChoices ==
    {[items |-> <<>>, capacity |-> c] : c \in 0..MaxSyncCap}
      \cup {[items |-> <<StalePdo>>, capacity |-> c] : c \in 1..MaxSyncCap}

\* entries.iter().cloned().map(|e| (e,false)).collect::<HashMap<Sdo,bool>>()
ReachedInit(es) == [s \in {es[i] : i \in DOMAIN es} |-> FALSE]

\* Faulty variant of the key: only the entries still to reach are counted.
CoverageFiltered(pdoEntries, rch) ==
    Cardinality({i \in DOMAIN pdoEntries :
                    pdoEntries[i] \in DOMAIN rch /\ ~rch[pdoEntries[i]]})

\* The key of max_by_key: entries.iter().map(|entry| reached.get(entry) ==
\* Some(&false)).count(): count() counts every mapped element, true or false.
Coverage(pdoEntries, rch) ==
    Len([i \in DOMAIN pdoEntries |->
            pdoEntries[i] \in DOMAIN rch /\ ~rch[pdoEntries[i]]])

\* Iterator::max_by_key over the PDOs in iteration order `ord`, after the
\* filter that drops the configurable ones: the last element with the
\* maximum key, as <<pdo>> for Some and << >> for None.
MaxByKey(ord, conf, pdos, rch) ==
    LET cand == SelectSeq(ord, LAMBDA p : p \notin conf) IN
    IF cand = <<>> THEN <<>>
    ELSE LET best == CHOOSE i \in DOMAIN cand :
                 /\ \A j \in DOMAIN cand :
                       Coverage(pdos[cand[j]], rch) <= Coverage(pdos[cand[i]], rch)
                 /\ \A j \in DOMAIN cand :
                       Coverage(pdos[cand[j]], rch) = Coverage(pdos[cand[i]], rch)
                          => j <= i
         IN <<cand[best]>>

\* One evaluation of the `while let` condition that yields Some((pdo, _)),
\* and the body, which inserts the PDO in `used`.  Neither `reached` nor the
\* candidates change, and the map, not modified in between, iterates in the
\* same order: every later evaluation yields the PDO the first one yielded.
Phase1Select ==
    /\ pc = "phase1"
    /\ \E ord \in Orders(DOMAIN mapping.pdos) :
          LET some == MaxByKey(ord, configurable, mapping.pdos, reached) IN
          /\ some # <<>>
          /\ used # {} => some[1] \in used
          /\ used' = used \cup {some[1]}
    /\ pc' = "phase1_again"
    /\ UNCHANGED <<inventory, configurable, required, mapping, reached,
                   result, run, first, regVars, codecVars, cycleVars>>

\* The end of the loop body: control goes back to the `while let` condition.
Phase1Again ==
    /\ pc = "phase1_again"
    /\ pc' = "phase1"
    /\ UNCHANGED <<inventory, configurable, required, mapping, used, reached,
                   result, run, first, regVars, codecVars, cycleVars>>

\* The evaluation of the `while let` condition that yields None.
Phase1Exit ==
    /\ pc = "phase1"
    /\ \A ord \in Orders(DOMAIN mapping.pdos) :
          MaxByKey(ord, configurable, mapping.pdos, reached) = <<>>
    /\ pc' = "phase2"
    /\ UNCHANGED <<inventory, configurable, required, mapping, used, reached,
                   result, run, first, regVars, codecVars, cycleVars>>

\* The positions the nested loops of phase 2 visit, in order: for each
\* configurable PDO of `cOrd`, each item of its Vec.
RECURSIVE Positions(_, _)
Positions(cOrd, pdos) ==
    IF cOrd = <<>> THEN <<>>
    ELSE [i \in 1..Len(pdos[Head(cOrd)]) |-> <<Head(cOrd), i>>]
            \o Positions(Tail(cOrd), pdos)

\* Faulty variant: the check fires when the items exactly fill the positions.
LackOfPdoOffByOne(nItems, nPositions) == nItems >= nPositions

\* `if it.next().is_some() {return Err(MappingError::LackOfPdo)}` after the
\* loops took one item per position visited.
LackOfPdo(nItems, nPositions) == nItems > nPositions

\* Phase 2: the unreached Sdos, in the order `it` of reached.iter(), are
\* written over the items of the configurable PDOs, in the order `cOrd` of
\* configurable.iter(); every PDO written to is inserted in `used`.
AssignConfigurable ==
    /\ pc = "phase2"
    /\ \E it \in Orders({s \in DOMAIN reached : ~reached[s]}),
          cOrd \in Orders(configurable) :
          LET pos == Positions(cOrd, mapping.pdos)
              n   == Min(Len(it), Len(pos))
              written(p, i) == {k \in 1..n : pos[k] = <<p, i>>}
          IN
          /\ mapping' = [mapping EXCEPT !.pdos =
                 [p \in DOMAIN mapping.pdos |->
                    [i \in DOMAIN mapping.pdos[p] |->
                        IF written(p, i) # {}
                        THEN it[CHOOSE k \in written(p, i) : TRUE]
                        ELSE mapping.pdos[p][i]]]]
          /\ used' = used \cup {pos[k][1] : k \in 1..n}
          /\ IF LackOfPdo(Len(it), Len(pos))
             THEN pc' = "done" /\ result' = "LackOfPdo"
             ELSE pc' = "phase3" /\ result' = result
    /\ UNCHANGED <<inventory, configurable, required, reached, run, first,
                   regVars, codecVars, cycleVars>>

\* Faulty variant: the loop bound is the room left in the Vec.
PushCountFree(sync) == sync.capacity - Len(sync.items)

\* The bound of `for _ in 0 .. sync.capacity()`.
PushCount(sync) == sync.capacity

\* Faulty variant: the check fires when the PDOs exactly fill the pushes.
LackOfSyncOffByOne(nUsed, nPushes) == nUsed >= nPushes

\* `if it.next().is_some() {return Err(MappingError::LackOfSync)}`
LackOfSync(nUsed, nPushes) == nUsed > nPushes

\* The number of pushes the loops of phase 3 offer before sync manager
\* number j of `sOrd`: `0 .. sync.capacity()` for each one before it.
RECURSIVE PushesBefore(_, _, _)
PushesBefore(sOrd, syncs, j) ==
    IF j <= 1 THEN 0
    ELSE PushesBefore(sOrd, syncs, j - 1) + PushCount(syncs[sOrd[j - 1]])

\* Phase 3: the used PDOs, in the order `it` of used.iter(), are pushed on
\* the sync managers' lists, in the order `sOrd` of syncs.values_mut().
AssignSyncs ==
    /\ pc = "phase3"
    /\ \E it \in Orders(used), sOrd \in Orders(DOMAIN mapping.syncs) :
          LET total == PushesBefore(sOrd, mapping.syncs, Len(sOrd) + 1)
              idx(s) == CHOOSE j \in DOMAIN sOrd : sOrd[j] = s
              from(s) == PushesBefore(sOrd, mapping.syncs, idx(s))
              upto(s) == Min(from(s) + PushCount(mapping.syncs[s]), Len(it))
              pushed(s) == IF from(s) < upto(s)
                           THEN SubSeq(it, from(s) + 1, upto(s)) ELSE <<>>
          IN
          /\ mapping' = [mapping EXCEPT !.syncs =
                 [s \in DOMAIN mapping.syncs |->
                    [mapping.syncs[s] EXCEPT !.items = @ \o pushed(s)]]]
          /\ result' = IF LackOfSync(Len(it), total) THEN "LackOfSync" ELSE "Ok"
          /\ pc' = "done"
    /\ UNCHANGED <<inventory, configurable, required, used, reached, run,
                   first, regVars, codecVars, cycleVars>>

\* What a finished run hands back: Ok(mapping), whose PDO contents and sync
\* lists show the used PDOs and every position, or the error alone.
Outcome ==
    IF result = "Ok"
    THEN [result |-> result, mapping |-> mapping, used |-> used]
    ELSE [result |-> result]

\* The caller runs solve once more on the same arguments.
SolveAgain ==
    /\ pc = "done"
    /\ run = 1
    /\ first' = Outcome
    /\ run' = 2
    /\ mapping' = inventory
    /\ used' = {}
    /\ reached' = ReachedInit(required)
    /\ pc' = "phase1"
    /\ result' = "none"
    /\ UNCHANGED <<inventory, configurable, required, regVars, codecVars, cycleVars>>

-----------------------------------------------------------------------------
(* Field codec (src/src/field.rs)                                          *)
(*                                                                         *)
(* A buffer is a sequence of bytes, index 1 standing for data[0].  A value *)
(* of a 1- or 2-byte type is the integer itself; a value of a 4- or 8-byte *)
(* type is its bit pattern written as base-256 digits, most significant    *)
(* first (<<18, 52, 86, 120>> is 0x12345678).                              *)

Reverse(sq) == [i \in 1..Len(sq) |-> sq[Len(sq) + 1 - i]]

Pow256(i) == IF i = 0 THEN 1 ELSE 256

\* The two's complement bit pattern of an integer value of width SizeOf(T).
Pattern(T, v) ==
    IF v >= 0 THEN v ELSE v + (IF SizeOf(T) = 1 THEN 256 ELSE 65536)

\* The integer a bit pattern stands for in T.
Value(T, u) ==
    CASE T = "I8"  -> IF u >= 128 THEN u - 256 ELSE u
      [] T = "I16" -> IF u >= 32768 THEN u - 65536 ELSE u
      [] OTHER     -> u

\* Faulty variant: the bytes come out most significant first.
ToBeBytes(T, v) ==
    IF SizeOf(T) <= 2
    THEN [i \in 1..SizeOf(T) |->
             (Pattern(T, v) \div Pow256(SizeOf(T) - i)) % 256]
    ELSE v

\* T::to_le_bytes: least significant byte first.
ToLeBytes(T, v) ==
    IF SizeOf(T) <= 2
    THEN [i \in 1..SizeOf(T) |-> (Pattern(T, v) \div Pow256(i - 1)) % 256]
    ELSE Reverse(v)

\* T::from_le_bytes
FromLeBytes(T, b) ==
    IF SizeOf(T) <= 2
    THEN Value(T, IF SizeOf(T) = 1 THEN b[1] ELSE b[1] + 256 * b[2])
    ELSE Reverse(b)

\* data[field.byte..]: the tail of the buffer from index field.byte on; the
\* slicing panics when field.byte is past the end.
TailFrom(buf, byte) == SubSeq(buf, byte + 1, Len(buf))

\* Faulty variant: only the bit offset is asserted.
FieldAssertsBitOnly(T, field) == field.bit = 0

\* The two assert_eq! every from_dfield / to_dfield starts with.
FieldAsserts(T, field) ==
    /\ field.bit = 0
    /\ field.bitlen = SizeOf(T)

\* Which of the two assert_eq! fails first: "bit aligned .. are not
\* supported" before "wrong field size".
FailedAssert(field) == IF field.bit # 0 THEN "bit" ELSE "bitlen"

\* T::from_dfield(field, data), what Field::get returns:
\* Self::from_le_bytes(data[field.byte..].try_into().expect(..)); try_into
\* to [u8; N] fails unless the slice has exactly N bytes.
FromDField(T, field, buf) ==
    IF ~FieldAsserts(T, field)
    THEN [res |-> "panic", why |-> FailedAssert(field)]
    ELSE IF field.byte > Len(buf) THEN [res |-> "panic", why |-> "range"]
    ELSE IF Len(TailFrom(buf, field.byte)) # SizeOf(T)
         THEN [res |-> "panic", why |-> "size"]
    ELSE [res |-> "ok", value |-> FromLeBytes(T, TailFrom(buf, field.byte))]

\* Faulty variant: the bytes before the field are cleared by the write.
ToDFieldClearing(T, field, buf, v) ==
    IF ~FieldAsserts(T, field)
    THEN [res |-> "panic", why |-> FailedAssert(field), data |-> buf]
    ELSE IF field.byte > Len(buf)
         THEN [res |-> "panic", why |-> "range", data |-> buf]
    ELSE IF Len(TailFrom(buf, field.byte)) # SizeOf(T)
         THEN [res |-> "panic", why |-> "size", data |-> buf]
    ELSE [res |-> "ok",
          data |-> [i \in 1..field.byte |-> 0] \o ToLeBytes(T, v)]

\* value.to_dfield(field, data), what Field::set does:
\* data[field.byte..].copy_from_slice(&self.to_le_bytes()); copy_from_slice
\* panics unless both slices have the same length.  Every panic comes
\* before the first byte is written.
ToDField(T, field, buf, v) ==
    IF ~FieldAsserts(T, field)
    THEN [res |-> "panic", why |-> FailedAssert(field), data |-> buf]
    ELSE IF field.byte > Len(buf)
         THEN [res |-> "panic", why |-> "range", data |-> buf]
    ELSE IF Len(TailFrom(buf, field.byte)) # SizeOf(T)
         THEN [res |-> "panic", why |-> "size", data |-> buf]
    ELSE [res |-> "ok",
          data |-> SubSeq(buf, 1, field.byte) \o ToLeBytes(T, v)]

\* The values the codec is exercised with: the extremes of each type and
\* patterns whose bytes all differ.
Values(T) ==
    CASE T = "U8"  -> {18, 255}
      [] T = "I8"  -> {-128, 52}
      [] T = "U16" -> {4660, 65535}
      [] T = "I16" -> {-32768, 258}
      [] T = "U32" -> {<<18, 52, 86, 120>>, <<255, 255, 255, 254>>}
      [] T = "I32" -> {<<128, 0, 0, 0>>, <<255, 254, 253, 252>>}
      [] T = "F32" -> {<<63, 128, 0, 0>>, <<127, 192, 0, 1>>}
      [] T = "F64" -> {<<63, 240, 0, 0, 0, 0, 0, 1>>,
                       <<127, 248, 1, 2, 3, 4, 5, 6>>}

\* The fields the codec is exercised with: the byte offsets at which a type
\* is aligned and one past the longest buffer, with the bit offset 0 and the
\* length given in bytes, or the bit offset 1, or the length given in bits.
Fields(T) ==
    {FieldNew(byte, bb[1], bb[2]) :
        byte \in {0, 1, 2, 4, MaxBuf + 1},
        bb \in {<<0, SizeOf(T)>>, <<1, SizeOf(T)>>, <<0, 8 * SizeOf(T)>>}}

\* field.set(data, value)
Set(T, field, v) ==
    LET r == ToDField(T, field, data, v) IN
    /\ data' = r.data
    /\ cret' = IF r.res = "ok"
               THEN [op |-> "set", res |-> "ok", T |-> T, field |-> field,
                     value |-> v]
               ELSE [op |-> "set", res |-> "panic", why |-> r.why]
    /\ UNCHANGED <<regVars, solveVars, cycleVars>>

\* field.get(data)
Get(T, field) ==
    LET r == FromDField(T, field, data) IN
    /\ cret' = IF r.res = "ok"
               THEN [op |-> "get", res |-> "ok", T |-> T, field |-> field,
                     value |-> r.value]
               ELSE [op |-> "get", res |-> "panic", why |-> r.why]
    /\ UNCHANGED <<data, regVars, solveVars, cycleVars>>

-----------------------------------------------------------------------------
(* Idle values of the parts a specification does not exercise.             *)

SolveIdle ==
    /\ inventory = [pdos |-> <<>>, syncs |-> <<>>]
    /\ configurable = {}
    /\ required = <<>>
    /\ mapping = [pdos |-> <<>>, syncs |-> <<>>]
    /\ used = {}
    /\ reached = <<>>
    /\ pc = "idle"
    /\ result = "none"
    /\ run = 1
    /\ first = "none"

CodecIdle ==
    /\ data = <<>>
    /\ cret = [op |-> "none"]

RegistryIdle ==
    /\ entries = <<>>
    /\ ret = [op |-> "new"]
    /\ calls = <<>>

\* main has not started.
CycleIdle ==
    /\ mpc = "idle"
    /\ issued = <<>>

-----------------------------------------------------------------------------
(* The cyclic exchange: main of src/examples/cyclic-data.rs                *)

\* The calls of the loop body that exchange process data.
CyclicOps == <<"receive", "process", "queue", "send">>

\* The number of times main has issued `call`.
Issued(call) == Cardinality({i \in DOMAIN issued : issued[i].call = call})

\* Faulty variant: the answer of the call is dropped and main goes on.
AfterIgnored(ok, next) == next

\* The `?` after a call: on Err main returns, on Ok it goes on to `next`.
After(ok, next) == IF ok THEN next ELSE "exit"

\* One fallible call of main, issued at position `at` and followed by
\* `next`.
Call(at, call, next) ==
    /\ mpc = at
    /\ \E ok \in BOOLEAN :
          /\ issued' = Append(issued, [call |-> call, ok |-> ok])
          /\ mpc' = After(ok, next)
    /\ UNCHANGED <<regVars, solveVars, codecVars>>

\* init_master()?: the master is opened and reserved, the domain created
\* and the slave configured; none of its calls is a call of the loop body.
InitMaster == Call("init", "init_master", "activate")

\* master.activate()?
Activate == Call("activate", "activate", "receive")

\* master.receive()?, the head of the loop body.
Receive ==
    /\ Issued("receive") < MaxCycles
    /\ Call("receive", "receive", "process")

\* master.domain(domain_idx).process()?
Process == Call("process", "process", "queue")

\* master.domain(domain_idx).queue()?
Queue == Call("queue", "queue", "send")

\* master.send()?
Send == Call("send", "send", "state")

\* The rest of the loop body: master.state()?, the domain state, the domain
\* data when the link is up and every slave is in Op (al_states == 8), and
\* the sleep that ends the cycle.
Observe ==
    /\ mpc = "state"
    /\ \E ok \in BOOLEAN, link_up \in BOOLEAN, al_states \in {1, 8} :
          /\ issued' =
                IF ~ok THEN Append(issued, [call |-> "state", ok |-> FALSE])
                ELSE issued \o <<[call |-> "state", ok |-> TRUE],
                                 [call |-> "domain_state", ok |-> TRUE]>>
                            \o (IF link_up /\ al_states = 8
                                THEN <<[call |-> "domain_data", ok |-> TRUE]>>
                                ELSE <<>>)
          /\ mpc' = After(ok, "receive")
    /\ UNCHANGED <<regVars, solveVars, codecVars>>

\* The process starts main.
InitCycle ==
    /\ RegistryIdle
    /\ SolveIdle
    /\ CodecIdle
    /\ mpc = "init"
    /\ issued = <<>>

NextCycle ==
    \/ InitMaster
    \/ Activate
    \/ Receive
    \/ Process
    \/ Queue
    \/ Send
    \/ Observe

SpecCycle == InitCycle /\ [][NextCycle]_vars

-----------------------------------------------------------------------------
(* The registry specification.                                             *)

\* MasterConfigurator::new: entries: HashMap::new()
Init ==
    /\ entries = <<>>
    /\ ret = [op |-> "new"]
    /\ calls = <<>>
    /\ SolveIdle
    /\ CodecIdle
    /\ CycleIdle

Next ==
    \/ \E slave \in Slaves, sdo \in Sdos, direction \in Directions :
          Require(slave, sdo, direction)
    \/ Resolve
    \/ \E T \in {"U16", "U8"}, slave \in Slaves, sdo \in AnySdo :
          Request(T, slave, sdo)

Spec == Init /\ [][Next]_vars

\* The number of requirements recorded, over all slaves.
TotalRequired == Sum([t \in DOMAIN entries |-> Len(Chain(entries[t]))],
                     DOMAIN entries)

\* require, while fewer than MaxTotal requirements are recorded in all.
RequireWithin(slave, sdo, direction) ==
    /\ direction # "Invalid" => TotalRequired < MaxTotal
    /\ Require(slave, sdo, direction)

\* The registry with resolve carried past the placeholder of line 66.
NextResolved ==
    \/ \E slave \in Slaves, sdo \in Sdos, direction \in Directions :
          RequireWithin(slave, sdo, direction)
    \/ ResolveSolved
    \/ \E T \in {"U16", "U8"}, slave \in Slaves, sdo \in AnySdo :
          Request(T, slave, sdo)

SpecResolved == Init /\ [][NextResolved]_vars

-----------------------------------------------------------------------------
(* The solve specifications: one call of solve on an inventory, a set of   *)
(* configurable PDO ids and a list of required Sdos.                       *)

\* The entry of solve: `let mut mapping = mapping`, `used` empty, `reached`
\* all false.  The configurable ids are PDOs of the inventory, as
\* inventorize builds it (fixed.iter().chain(configurable)).
InitSolve ==
    /\ RegistryIdle
    /\ CodecIdle
    /\ CycleIdle
    /\ inventory \in [pdos : [PdoIds -> BSeq(Sdos, MaxPdoLen)],
                      syncs : [SyncIds -> SyncChoices]]
    /\ configurable \in SUBSET PdoIds
    /\ required \in BSeq(Sdos, Cardinality(Sdos))
    /\ mapping = inventory
    /\ used = {}
    /\ reached = ReachedInit(required)
    /\ pc = "phase1"
    /\ result = "none"
    /\ run = 1
    /\ first = "none"

NextSolve ==
    \/ Phase1Select
    \/ Phase1Again
    \/ Phase1Exit
    \/ AssignConfigurable
    \/ AssignSyncs

SpecSolve == InitSolve /\ [][NextSolve]_vars

\* solve runs on its own thread of control, with nothing to wait for: a
\* step that can be taken is taken.
SpecSolveFair == InitSolve /\ [][NextSolve]_vars /\ WF_vars(NextSolve)

NextTwice ==
    \/ Phase1Select
    \/ Phase1Again
    \/ Phase1Exit
    \/ AssignConfigurable
    \/ AssignSyncs
    \/ SolveAgain

SpecTwice == InitSolve /\ [][NextTwice]_vars

-----------------------------------------------------------------------------
(* The codec specification: get and set on one buffer.                     *)

\* The buffer starts zeroed, of any length up to MaxBuf.
InitCodec ==
    /\ RegistryIdle
    /\ SolveIdle
    /\ CycleIdle
    /\ data \in {[i \in 1..n |-> 0] : n \in 0..MaxBuf}
    /\ cret = [op |-> "none"]

NextCodec ==
    \/ \E T \in DTypes : \E field \in Fields(T), v \in Values(T) :
          Set(T, field, v)
    \/ \E T \in DTypes : \E field \in Fields(T) : Get(T, field)

SpecCodec == InitCodec /\ [][NextCodec]_vars

-----------------------------------------------------------------------------
(* Properties                                                              *)

Range(sq) == {sq[i] : i \in DOMAIN sq}

\* The Sdos a ConfigEntry requires, inputs and outputs together.
Items(e) == Range(e.inputs) \cup Range(e.outputs)

\* The positions of all the PDOs in `ids`.
TotalPositions(pdos, ids) == Sum([p \in ids |-> Len(pdos[p])], ids)

\* The capacity of all the sync managers together.
TotalSyncCapacity(syncs) ==
    Sum([s \in DOMAIN syncs |-> syncs[s].capacity], DOMAIN syncs)

\* The requirements of a ConfigEntry fit in the configurator's inventory.
Fits(e) ==
    /\ Len(e.inputs) + Len(e.outputs)
          <= TotalPositions(selfInventory.pdos, DOMAIN selfInventory.pdos)
    /\ Cardinality(DOMAIN selfInventory.pdos)
          <= TotalSyncCapacity(selfInventory.syncs)

HasOffset(slave, sdo) ==
    /\ slave \in DOMAIN entries
    /\ sdo \in DOMAIN entries[slave].offsets

\* C1 (as claimed): once resolve has been called, it has completed
\* successfully and every required item of every slave whose requirements
\* fit in the inventory has a stored offset.
C1_ResolveStoresEveryField ==
    ret.op = "resolve" =>
        \A slave \in DOMAIN entries :
            Fits(entries[slave]) =>
                /\ ret.res = "ok"
                /\ \A sdo \in Items(entries[slave]) : HasOffset(slave, sdo)

\* C2 (as claimed): a second run of solve on the same inventory,
\* configurable ids and required items returns what the first run returned:
\* the same result, the same PDO contents and sync assignment, the same
\* used PDOs.
C2_SolveDeterministic ==
    (run = 2 /\ pc = "done") => Outcome = first

\* The positions of the used PDOs that hold `sdo`.
PlacesOf(sdo) ==
    {pi \in UNION {{<<p, i>> : i \in DOMAIN mapping.pdos[p]} : p \in used} :
        mapping.pdos[pi[1]][pi[2]] = sdo}

\* C3 (as claimed): after a successful solve every required item is at
\* exactly one position of the used PDOs.
C3_EachItemAtOnePosition ==
    (pc = "done" /\ result = "Ok") =>
        \A sdo \in Range(required) : Cardinality(PlacesOf(sdo)) = 1

\* C4 (as claimed): after solve, successful or not, no sync manager holds
\* more PDOs than its capacity, whatever it held in the inventory passed in.
C4_SyncWithinCapacity ==
    pc = "done" =>
        \A s \in DOMAIN mapping.syncs :
            Len(mapping.syncs[s].items) <= inventory.syncs[s].capacity

\* The required items phase 1 left unreached.
Unreached == {s \in DOMAIN reached : ~reached[s]}

\* The requirements do not fit in the configurable PDOs.
CarriersLacking ==
    Cardinality(Unreached) > TotalPositions(inventory.pdos, configurable)

\* C5: once phase 1 is over, solve returns LackOfPdo exactly when the
\* unreached required items outnumber the positions of the configurable
\* PDOs.
C5_LackOfPdoIff ==
    pc \in {"phase3", "done"} => (result = "LackOfPdo" <=> CarriersLacking)

C5_Witness ==
    /\ pc = "done"
    /\ result = "LackOfPdo"
    /\ used # {}

\* C6 (as claimed): solve returns LackOfSync whenever the used PDOs
\* outnumber the capacity of all sync managers, whether or not the
\* configurable PDOs sufficed.
C6_LackOfSyncWhenever ==
    (pc = "done" /\ Cardinality(used) > TotalSyncCapacity(inventory.syncs))
        => result = "LackOfSync"

\* C6 (amended): a finished solve returned LackOfSync exactly when the
\* required items fitted in the configurable PDOs and the used PDOs
\* outnumber the capacity of all sync managers; when the items do not fit,
\* LackOfPdo is returned before the sync managers are looked at.
C6_LackOfSyncIff ==
    pc = "done" =>
        (result = "LackOfSync" <=>
            (~CarriersLacking
             /\ Cardinality(used) > TotalSyncCapacity(inventory.syncs)))

C6_Witness ==
    /\ pc = "done"
    /\ result = "LackOfSync"
    /\ Cardinality(used) = 2

\* C7 (as claimed): a require call identical to an earlier one (its Sdo is
\* already in the slave's list for that direction) leaves the registry as
\* it was.
C7_RequireIdempotent ==
    [][\A slave \in Slaves, sdo \in Sdos :
          /\ (/\ slave \in DOMAIN entries
              /\ sdo \in Range(entries[slave].outputs)
              /\ Require(slave, sdo, "Output")) => entries' = entries
          /\ (/\ slave \in DOMAIN entries
              /\ sdo \in Range(entries[slave].inputs)
              /\ Require(slave, sdo, "Input")) => entries' = entries]_vars

ListsOf(es, slave) ==
    IF slave \in DOMAIN es
    THEN <<es[slave].inputs, es[slave].outputs>>
    ELSE <<<<>>, <<>>>>

C10_RoundTrip ==
    (cret.op = "set" /\ cret.res = "ok") =>
        FromDField(cret.T, cret.field, data)
            = [res |-> "ok", value |-> cret.value]

C10_Witness ==
    /\ cret.op = "set"
    /\ cret.res = "ok"
    /\ cret.T = "I16"
    /\ cret.value = -32768
    /\ cret.field.byte > 0

\* The fields that break an alignment precondition of the codec for T.
Misaligned(T) == {f \in Fields(T) : f.bit # 0 \/ f.bitlen # SizeOf(T)}

Aligned(T) == Fields(T) \ Misaligned(T)

\* C12 (as claimed): for every type and aligned field, get and set succeed
\* on the buffer exactly when it is at least field.byte + size_of::<T>()
\* long, longer buffers included.
C12_LongEnoughBufferAccepted ==
    \A T \in DTypes : \A f \in Aligned(T) :
        /\ FromDField(T, f, data).res = "ok"
              <=> Len(data) >= f.byte + SizeOf(T)
        /\ \A v \in Values(T) :
              ToDField(T, f, data, v).res = "ok"
                 <=> Len(data) >= f.byte + SizeOf(T)

\* The buffer indices a field of type T covers.
Window(T, field) == (field.byte + 1)..(field.byte + SizeOf(T))

\* C20: a step changes the buffer only if it is a set the codec accepted,
\* and then only at the indices of the field; the length never changes.
\* (A get is never such a step.)
C20_SetWritesOnlyItsWindow ==
    [][/\ Len(data') = Len(data)
       /\ \A i \in DOMAIN data :
             data'[i] # data[i] =>
                /\ cret'.op = "set"
                /\ cret'.res = "ok"
                /\ i \in Window(cret'.T, cret'.field)]_vars

\* A set was accepted on a buffer holding a byte written earlier, outside
\* the field's window.
C20_Witness ==
    /\ cret.op = "set"
    /\ cret.res = "ok"
    /\ cret.T = "U8"
    /\ cret.field.byte = 1
    /\ data[1] = 255

OffsetsOf(es) == [t \in DOMAIN es |-> es[t].offsets]

C15_SolveTerminates == <>(pc = "done")

\* The fixed PDOs of the inventory.
Fixed == PdoIds \ configurable

\* The required items still unreached that PDO p holds.
NewlyCovered(p) == Range(mapping.pdos[p]) \cap Unreached

\* C16 (as claimed): a fixed PDO is inserted in `used` only when it holds
\* a required item that is unreached at that moment.
C16_UsedFixedCoversNew ==
    [][\A p \in (used' \ used) \cap Fixed : NewlyCovered(p) # {}]_vars

\* C17 (as claimed): every required item of a fixed PDO in `used` is marked
\* reached, and the items phase 2 writes into configurable PDOs are items
\* no used fixed PDO holds.
C17_ReachedMarkedThenSkipped ==
    /\ \A p \in used \cap Fixed :
          \A s \in Range(inventory.pdos[p]) \cap DOMAIN reached : reached[s]
    /\ \A p \in configurable : \A i \in DOMAIN mapping.pdos[p] :
          mapping.pdos[p][i] # inventory.pdos[p][i] =>
             \A q \in used \cap Fixed :
                mapping.pdos[p][i] \notin Range(inventory.pdos[q])

\* The fixed PDOs that hold the most required items still unreached.
BestFixed ==
    {p \in Fixed :
        \A q \in Fixed :
            Cardinality(NewlyCovered(q)) <= Cardinality(NewlyCovered(p))}

\* C18 (as claimed): when several fixed PDOs hold the most required items
\* still unreached, and hold at least one, phase 1 selects the first of
\* them in the order of the inventory, the one with the least id.
C18_TieGoesToFirst ==
    (/\ pc = "phase1_again"
     /\ Cardinality(BestFixed) > 1
     /\ \A p \in BestFixed : NewlyCovered(p) # {}) =>
        used = {CHOOSE p \in BestFixed : \A q \in BestFixed : p <= q}

\* The indices of `issued` that hold a call of the exchange.
CyclicIdx == {i \in DOMAIN issued : issued[i].call \in Range(CyclicOps)}

\* C21: a call of the exchange is issued only after activate has succeeded;
\* the calls of the exchange come in the order receive, process, queue,
\* send, cycle after cycle; and a call that failed is the last call issued.
C21_CycleOrder ==
    /\ \A i \in CyclicIdx :
          \E j \in 1..(i - 1) : issued[j] = [call |-> "activate", ok |-> TRUE]
    /\ \A i \in CyclicIdx :
          issued[i].call
             = CyclicOps[(Cardinality({j \in CyclicIdx : j < i}) % 4) + 1]
    /\ \A i \in DOMAIN issued : ~issued[i].ok => i = Len(issued)

\* Two whole cycles were exchanged and the third stopped at a failed
\* process.
C21_Witness ==
    /\ Issued("send") = 2
    /\ Issued("receive") = 3
    /\ issued[Len(issued)] = [call |-> "process", ok |-> FALSE]
    /\ mpc = "exit"

\* The indices of `calls` that hold a call named `name`.
CallsNamed(name) == {i \in DOMAIN calls : calls[i][1] = name}

\* The calls that configure sync managers, PDO assignments and PDO
\* mappings.
ConfigNames ==
    {"config_sync_manager", "clear_pdo_assignments", "add_pdo_assignment",
     "clear_pdo_mapping", "add_pdo_mapping"}

C23_RejectedRequireChangesNothing ==
    [][\A slave \in Slaves, sdo \in Sdos :
          Require(slave, sdo, "Invalid") => entries' = entries]_vars

=============================================================================
